---- MODULE Spec2Model ----
(***************************************************************************)
(* ActivityPub engine of GoBlog: the inbox handler (apHandleInbox), the    *)
(* Follow workflow (apAccept, apGetRemoteActor, apAddFollower), the        *)
(* follower table, signed delivery (apSendSigned), the fan-out to the      *)
(* followers (apSendToAllFollowers, apSendTo) and the discovery endpoints  *)
(* (apHandleWebfinger, handleWellKnownHostMeta).                           *)
(***************************************************************************)
EXTENDS Naturals, Sequences, FiniteSets, TLC

VARIABLES
    followers,  \* table activitypub_followers: rows [blog, follower, inbox]
    hs,         \* per request worker: the inbox request it is handling
    last,       \* the request answered last and the status written for it
    mutex,      \* apPostSignMutex: "unlocked" or "locked"
    tasks,      \* the goroutines started by apSendTo, in start order
    fanout,     \* what the last lifecycle hook did: the post and the rows read
    crashed,    \* the process died of a panic outside a request handler
    finger,     \* the last answer of /.well-known/webfinger
    hostmeta    \* the last answer of /.well-known/host-meta

vars == <<followers, hs, last, mutex, tasks, fanout, crashed, finger, hostmeta>>

(***************************************************************************)
(* Configuration and the values of the outside world.                      *)
(***************************************************************************)
Blogs == {"b1", "b2"}
PublicAddress == "https://site"
Path(b) == "/" \o b
apIri(b) == PublicAddress \o Path(b)

Handlers == {"h1", "h2"}
Worker == {"h1"}

\* JSON values of an activity document, as encoding/json decodes them into
\* map[string]interface{}: a missing key reads as nil.
JNil == [k |-> "nil", s |-> ""]
JNum == [k |-> "num", s |-> ""]
JStr(x) == [k |-> "str", s |-> x]
JMap(t, a) == [k |-> "map", s |-> "", type |-> t, actor |-> a,
               inReplyTo |-> JNil, id |-> JNil, content |-> JNil]
\* The object of a Create: a note with inReplyTo, id and content.
JNote(r, i, c) == [JMap(JStr("Note"), JNil) EXCEPT !.inReplyTo = r, !.id = i,
                                                    !.content = c]

IsString(v) == v.k = "str"

\* The actor documents a remote server may answer with; encoding/json leaves
\* a missing id or inbox as the empty string. Every inbox IRI here parses as
\* a URL, so http.NewRequestWithContext and url.Parse in apSendSigned succeed.
RemoteDocs ==
    { [id |-> "a1", inbox |-> "i1"], [id |-> "a1", inbox |-> "i2"],
      [id |-> "a2", inbox |-> "i1"], [id |-> "", inbox |-> ""] }
NilPerson == [id |-> "nil", inbox |-> "nil", isNil |-> TRUE]

\* What the remote server answers to the GET of an actor IRI: code 0 stands
\* for a network failure (no response), body "garbage" for an unparsable one.
Garbage == [id |-> "garbage", inbox |-> "garbage", isNil |-> FALSE]
ActorResponses ==
    { [code |-> 200, body |-> d] : d \in RemoteDocs \cup {Garbage} }
        \cup { [code |-> c, body |-> Garbage] : c \in {0, 203, 404} }

apRequestIsSuccess(code) == code \in {200, 201, 202, 204}

\* apGetRemoteActor: (actor, err) for the answer of the remote server.
apGetRemoteActor(resp) ==
    IF resp.code = 0 THEN [actor |-> NilPerson, err |-> TRUE]
    ELSE IF ~apRequestIsSuccess(resp.code) THEN [actor |-> NilPerson, err |-> FALSE]
    ELSE IF resp.body = Garbage THEN [actor |-> NilPerson, err |-> TRUE]
    ELSE [actor |-> resp.body, err |-> FALSE]

\* What a follower's inbox answers to a POST; the empty IRI cannot be posted to.
InboxResponses(to) == IF to = "" THEN {0} ELSE {0, 202, 500}

\* strings.Contains(s, sub) on the texts used here: sub with something in
\* front of it and something behind it.
Before == {"", "https://other/?u="}
After == {"", "/p1"}
Contains(s, sub) == \E p \in Before, q \in After : s = p \o sub \o q

\* The HTML contents a Create may carry and the links doc.ExternalLinks()
\* returns for each.
ExternalLinks(content) ==
    IF content = "html1"
    THEN { apIri("b1") \o "/p1", "https://other/?u=" \o apIri("b1"),
           apIri("b2") \o "/p1", "https://other/p1" }
    ELSE IF content = "html0" THEN { "https://other/p1" }
    ELSE {}

\* webmention.DocumentFromReader(ctx, reader, id): (doc, err). What doc holds
\* when err is set is the library's business: nil, or a document with some
\* of the links.
DocumentFromReader(content) ==
    { [err |-> FALSE, isNil |-> FALSE, links |-> ExternalLinks(content)],
      [err |-> TRUE, isNil |-> TRUE, links |-> {}],
      [err |-> TRUE, isNil |-> FALSE, links |-> {}],
      [err |-> TRUE, isNil |-> FALSE, links |-> ExternalLinks(content)] }

Activity(t, a, o) == [type |-> t, actor |-> a, object |-> o, id |-> JNil]
NoActivity == Activity(JNil, JNil, JNil)

\* generateRandomString(16): the strings it may return.
RandomStrings == {"r1", "r2"}
\* apNewID(blog), given the random string drawn.
apNewID(b, rnd) == apIri(b) \o rnd

FollowActivities ==
    { Activity(JStr("Follow"), JStr("a1"), JStr(apIri("b1"))),
      Activity(JStr("Follow"), JStr("a2"), JStr(apIri("b1"))),
      Activity(JStr("Follow"), JStr("a1"), JStr("a1")),
      Activity(JStr("Follow"), JNil, JStr(apIri("b1"))),
      Activity(JStr("Follow"), JNum, JStr(apIri("b1"))) }
UndoActivities ==
    { Activity(JStr("Undo"), JStr("a1"), JMap(JStr("Follow"), JStr("a1"))),
      Activity(JStr("Undo"), JStr("a2"), JMap(JStr("Follow"), JStr("a2"))),
      Activity(JStr("Undo"), JStr("a2"), JMap(JStr("Follow"), JStr("a1"))),
      Activity(JStr("Undo"), JStr("a1"), JMap(JStr("Like"), JStr("a1"))),
      Activity(JStr("Undo"), JStr("a1"), JStr("a1")),
      Activity(JStr("Undo"), JNil, JMap(JStr("Follow"), JNil)) }
BlockActivities ==
    { Activity(JStr("Block"), JStr("a1"), JStr("a1")),
      Activity(JStr("Block"), JStr("a2"), JStr("a2")),
      Activity(JStr("Block"), JStr("a2"), JStr("a1")),
      Activity(JStr("Block"), JStr(""), JStr("")),
      Activity(JStr("Block"), JStr("a1"), JNil) }
OtherActivities ==
    { Activity(t, JStr("a1"), JStr(apIri("b1"))) :
        t \in {JStr("Delete"), JStr("Create"), JStr("Like"), JStr("Announce"),
               JStr("Note"), JNil, JNum} }
CreateActivities ==
    { Activity(JStr("Create"), JStr("a1"), o) :
        o \in { JNote(JStr(apIri("b1") \o "/p1"), JStr("n1"), JStr("html1")),
                JNote(JStr("https://other/p1"), JStr("n1"), JStr("html1")),
                JNote(JNil, JStr("n1"), JStr("html1")),
                JNote(JNil, JStr("n1"), JStr("html0")),
                JNote(JStr(apIri("b1") \o "/p1"), JStr(""), JStr("html1")),
                JNote(JStr(apIri("b1") \o "/p1"), JNil, JNil),
                JNote(JNum, JStr("n1"), JNil) } }
LikeActivities ==
    { Activity(t, ao[1], ao[2]) :
        t \in {JStr("Like"), JStr("Announce")},
        ao \in { <<JStr("a1"), JStr(apIri("b1") \o "/p1")>>,
                 <<JStr("a1"), JStr("https://other/p1")>>,
                 <<JStr(""), JStr(apIri("b1") \o "/p1")>>,
                 <<JNil, JStr(apIri("b1") \o "/p1")>>,
                 <<JStr("a1"), JStr("")>>,
                 <<JStr("a1"), JNil>> } }
Activities ==
    FollowActivities \cup UndoActivities \cup BlockActivities \cup OtherActivities
        \cup CreateActivities \cup LikeActivities

\* An inbox submission: the {blog} URL parameter and the body. A body is
\* malformed JSON, valid JSON that is no object, or a JSON object.
Request(b, k, a) == [blog |-> b, body |-> k, activity |-> a]
Requests ==
    { Request("b1", "object", a) : a \in Activities }
        \cup { Request("b1", k, NoActivity) : k \in {"malformed", "nonobject"} }
        \cup { Request("b2", "object", a) :
                 a \in { [Activity(JStr("Follow"), JStr("a1"), JStr(apIri("b2")))
                             EXCEPT !.id = JStr(apIri("b2") \o "r1")],
                         Activity(JStr("Undo"), JStr("a1"), JMap(JStr("Follow"), JStr("a1"))),
                         Activity(JStr("Block"), JStr("a1"), JStr("a1")) } }
        \cup { Request("nob", k, NoActivity) : k \in {"malformed", "object"} }
\* The submissions that read or write the follower table of one blog.
RegistryRequests ==
    { Request("b1", "object", a) :
        a \in { Activity(JStr("Follow"), JStr("a1"), JStr(apIri("b1"))),
                Activity(JStr("Follow"), JStr("a2"), JStr(apIri("b1"))),
                Activity(JStr("Undo"), JStr("a1"), JMap(JStr("Follow"), JStr("a1"))),
                Activity(JStr("Block"), JStr("a2"), JStr("a2")) } }
NoRequest == [blog |-> "", body |-> "none", activity |-> NoActivity]

StatusOK == 200
StatusCreated == 201
StatusBadRequest == 400
StatusNotFound == 404
StatusInternalServerError == 500

Idle == [pc |-> "idle", req |-> NoRequest, follower |-> NilPerson, addErr |-> FALSE,
         acceptId |-> ""]

(***************************************************************************)
(* The follower table.                                                     *)
(***************************************************************************)
Row(b, f, i) == [blog |-> b, follower |-> f, inbox |-> i]
RowsOf(t, b, f) == { r \in t : r.blog = b /\ r.follower = f }

\* The table is unique on (blog, follower).
FollowerKey(r) == <<r.blog, r.follower>>

\* insert or replace: the row with the same key is replaced.
apAddFollowerAppend(t, b, f, i) == t \cup {Row(b, f, i)}
apAddFollower(t, b, f, i) ==
    { r \in t : FollowerKey(r) # <<b, f>> } \cup {Row(b, f, i)}

\* delete ... where blog = @blog and follower = @follower
apRemoveFollowerAnyBlog(t, b, f) == { r \in t : r.follower # f }
apRemoveFollowerInsert(t, b, f) == t \cup {Row(b, f, "")}
apRemoveFollower(t, b, f) == t \ RowsOf(t, b, f)

\* select follower, inbox ... where blog = @blog, scanned into a map
\* follower -> inbox.
apGetAllFollowersAllBlogs(t, b) ==
    [f \in { r.follower : r \in t } |-> (CHOOSE r \in t : r.follower = f).inbox]
apGetAllFollowers(t, b) ==
    LET rows == { r \in t : r.blog = b }
    IN  [f \in { r.follower : r \in rows } |->
            (CHOOSE r \in rows : r.follower = f).inbox]

\* apAccept: newFollower == follow["object"], Go's == between a string and an
\* interface{} value.
IsSelfFollowNever(a) == FALSE
IsSelfFollow(a) == a.actor = a.object

\* The type-guarded field reads of the dispatcher.
BlockMatchesAnyObject(a) ==
    /\ IsString(a.object)
    /\ a.object.s # ""
UndoFollowMatchesAnyActor(a) ==
    /\ a.object.k = "map"
    /\ a.object.type = JStr("Follow")
    /\ IsString(a.object.actor)
UndoFollowMatches(a) ==
    /\ a.object.k = "map"
    /\ a.object.type = JStr("Follow")
    /\ IsString(a.object.actor)
    /\ a.object.actor = a.actor
BlockMatches(a) ==
    /\ IsString(a.object)
    /\ a.object.s # ""
    /\ a.actor = a.object

\* case "Create": the reply test and the content test of the dispatcher.
CreateIsReply(a, blogIri) ==
    /\ a.object.k = "map"
    /\ IsString(a.object.inReplyTo)
    /\ IsString(a.object.id)
    /\ a.object.inReplyTo.s # ""
    /\ a.object.id.s # ""
    /\ Contains(a.object.inReplyTo.s, blogIri)
CreateHasContent(a) ==
    /\ a.object.k = "map"
    /\ IsString(a.object.content)
    /\ IsString(a.object.id)
    /\ a.object.id.s # ""

\* createWebmention(source, target)
Mention(source, target) == [source |-> source, target |-> target]
ReplyMentionsNone(o) == {}
ReplyMentions(o) == { Mention(o.id.s, o.inReplyTo.s) }
LinkMentions(id, links, blogIri) ==
    { Mention(id, l) : l \in { k \in links : Contains(k, blogIri) } }

\* case "Like", case "Announce": the guard and the text of the notification.
LikeMatchesAnyObject(a, blogIri) ==
    /\ IsString(a.actor)
    /\ IsString(a.object)
    /\ a.actor.s # ""
    /\ a.object.s # ""
LikeMatches(a, blogIri) ==
    /\ IsString(a.actor)
    /\ IsString(a.object)
    /\ a.actor.s # ""
    /\ a.object.s # ""
    /\ Contains(a.object.s, blogIri)
Notification(actor, verb, object) == actor \o " " \o verb \o " " \o object

\* appConfig.ActivityPub.Enabled: the inbox route exists only when it is set.
ActivityPubEnabled == TRUE

\* Content items, as far as the lifecycle hooks read them.
Posts ==
    [Blog : Blogs, Published : {"", "2020-01-01"}, section : {"", "posts"}]

\* Follower tables a restarted process may find in its database.
PersistedTables ==
    { {},
      {Row("b1", "a1", "i1")},
      {Row("b1", "a1", "i1"), Row("b1", "a2", "i2")},
      {Row("b1", "a1", "i1"), Row("b1", "a2", "i1"), Row("b2", "a1", "i2")},
      {Row("b2", "a2", "i2")} }

MaxTasks == 2

\* err: apGetAllFollowers returned an error; cut: the iteration over the rows
\* ended on a store error, which the code does not look at.
NoFanout == [hook |-> "none", blog |-> "", skipped |-> FALSE, err |-> FALSE,
             cut |-> FALSE, read |-> <<>>, first |-> 0, count |-> 0]

\* Nothing answered yet. mentions: the createWebmention(source, target)
\* calls, notes: the sendNotification(text) calls the answered request made,
\* added: the row its apAddFollower call wrote.
NoRow == [blog |-> "", follower |-> "none", inbox |-> "none"]
NoAnswer == [req |-> NoRequest, status |-> 0, mentions |-> {}, notes |-> <<>>,
             added |-> NoRow]
NoFinger == [resource |-> "none", status |-> 0, subject |-> "", self |-> ""]
NoHostMeta == [host |-> "none", status |-> 0, template |-> ""]

Init ==
    /\ followers = {}
    /\ hs = [h \in Handlers |-> Idle]
    /\ last = NoAnswer
    /\ mutex = "unlocked"
    /\ tasks = <<>>
    /\ fanout = NoFanout
    /\ crashed = FALSE
    /\ finger = NoFinger
    /\ hostmeta = NoHostMeta

AnswerWith(req, status, mentions, notes) ==
    last' = [req |-> req, status |-> status, mentions |-> mentions, notes |-> notes,
             added |-> NoRow]
Answer(req, status) == AnswerWith(req, status, {}, <<>>)

\* The handler returns (or panics into chi's Recoverer): the worker is free.
Finish(h, status) ==
    /\ hs' = [hs EXCEPT ![h] = Idle]
    /\ last' = [NoAnswer EXCEPT
                  !.req = hs[h].req,
                  !.status = status,
                  !.added = IF hs[h].pc \in {"lock", "sign", "post"} /\ ~hs[h].addErr
                            THEN Row(hs[h].req.blog, hs[h].follower.id, hs[h].follower.inbox)
                            ELSE NoRow]

(***************************************************************************)
(* apHandleInbox up to its first blocking call. dbOk: whether the store    *)
(* executes the statement of apRemoveFollower (its error is discarded).    *)
(***************************************************************************)
apHandleInbox(h, req, dbOk) ==
    /\ ~crashed
    /\ UNCHANGED <<finger, hostmeta>>
    /\ hs[h].pc = "idle"
    /\ UNCHANGED <<mutex, tasks, fanout, crashed>>
    /\ LET a == req.activity IN
       IF req.blog \notin Blogs
       THEN Answer(req, StatusNotFound) /\ UNCHANGED <<followers, hs>>
       ELSE IF req.body # "object"
       THEN Answer(req, StatusBadRequest) /\ UNCHANGED <<followers, hs>>
       ELSE IF a.type = JStr("Follow")
       THEN \* apAccept: follow["actor"].(string), then the self-follow check
            IF ~IsString(a.actor)
            THEN Answer(req, StatusInternalServerError) /\ UNCHANGED <<followers, hs>>
            ELSE IF IsSelfFollow(a)
            THEN Answer(req, StatusCreated) /\ UNCHANGED <<followers, hs>>
            ELSE /\ hs' = [hs EXCEPT ![h] = [Idle EXCEPT !.pc = "resolve", !.req = req]]
                 /\ UNCHANGED <<followers, last>>
       ELSE IF a.type = JStr("Undo") /\ UndoFollowMatches(a)
       THEN /\ followers' = IF dbOk THEN apRemoveFollower(followers, req.blog, a.object.actor.s)
                                    ELSE followers
            /\ Answer(req, StatusCreated) /\ UNCHANGED hs
       ELSE IF a.type = JStr("Block") /\ BlockMatches(a)
       THEN /\ followers' = IF dbOk THEN apRemoveFollower(followers, req.blog, a.object.s)
                                    ELSE followers
            /\ Answer(req, StatusCreated) /\ UNCHANGED hs
       ELSE IF a.type = JStr("Create") /\ CreateIsReply(a, apIri(req.blog))
       THEN /\ AnswerWith(req, StatusCreated, ReplyMentions(a.object), <<>>)
            /\ UNCHANGED <<followers, hs>>
       ELSE IF a.type = JStr("Create") /\ CreateHasContent(a)
       THEN \* the links are walked when err != nil; doc.ExternalLinks() on a
            \* nil doc panics
            /\ \E d \in DocumentFromReader(a.object.content.s) :
                  IF ~d.err THEN Answer(req, StatusCreated)
                  ELSE IF d.isNil THEN Answer(req, StatusInternalServerError)
                  ELSE AnswerWith(req, StatusCreated,
                                  LinkMentions(a.object.id.s, d.links, apIri(req.blog)),
                                  <<>>)
            /\ UNCHANGED <<followers, hs>>
       ELSE IF a.type = JStr("Like") /\ LikeMatches(a, apIri(req.blog))
       THEN /\ AnswerWith(req, StatusCreated, {},
                           <<Notification(a.actor.s, "liked", a.object.s)>>)
            /\ UNCHANGED <<followers, hs>>
       ELSE IF a.type = JStr("Announce") /\ LikeMatches(a, apIri(req.blog))
       THEN /\ AnswerWith(req, StatusCreated, {},
                           <<Notification(a.actor.s, "announced", a.object.s)>>)
            /\ UNCHANGED <<followers, hs>>
       ELSE Answer(req, StatusCreated) /\ UNCHANGED <<followers, hs>>

(***************************************************************************)
(* apAccept after the self-follow check.                                   *)
(***************************************************************************)
\* follower, err := apGetRemoteActor(newFollower); the read of follower.ID
\* for apAddFollower panics on a nil follower.
AcceptResolve(h, resp) ==
    /\ ~crashed
    /\ UNCHANGED <<finger, hostmeta>>
    /\ hs[h].pc = "resolve"
    /\ UNCHANGED <<followers, mutex, tasks, fanout, crashed>>
    /\ LET r == apGetRemoteActor(resp) IN
       IF r.err THEN Finish(h, StatusCreated)
       ELSE IF r.actor = NilPerson THEN Finish(h, StatusInternalServerError)
       ELSE /\ hs' = [hs EXCEPT ![h].pc = "add", ![h].follower = r.actor]
            /\ UNCHANGED last

\* apAddFollower(blogName, follower.ID, follower.Inbox), its error dropped;
\* then the Accept is built, with the id apNewID returns, and apSendSigned
\* reaches the signing mutex.
AcceptAddFollower(h, dbOk) ==
    /\ ~crashed
    /\ UNCHANGED <<finger, hostmeta>>
    /\ hs[h].pc = "add"
    /\ followers' = IF dbOk
                     THEN apAddFollower(followers, hs[h].req.blog,
                                        hs[h].follower.id, hs[h].follower.inbox)
                     ELSE followers
    /\ \E rnd \in RandomStrings :
          hs' = [hs EXCEPT ![h].pc = "lock", ![h].addErr = ~dbOk,
                           ![h].acceptId = apNewID(hs[h].req.blog, rnd)]
    /\ UNCHANGED <<last, mutex, tasks, fanout, crashed>>

AcceptLockNoWait(h) ==
    /\ ~crashed
    /\ UNCHANGED <<finger, hostmeta>>
    /\ hs[h].pc = "lock"
    /\ mutex' = "locked"
    /\ hs' = [hs EXCEPT ![h].pc = "sign"]
    /\ UNCHANGED <<followers, last, tasks, fanout, crashed>>

\* apSendSigned for the Accept: apPostSignMutex.Lock()
AcceptLock(h) ==
    /\ ~crashed
    /\ UNCHANGED <<finger, hostmeta>>
    /\ hs[h].pc = "lock"
    /\ mutex = "unlocked"
    /\ mutex' = "locked"
    /\ hs' = [hs EXCEPT ![h].pc = "sign"]
    /\ UNCHANGED <<followers, last, tasks, fanout, crashed>>

\* SignRequest, Unlock; a signing error is returned to apAccept, which logs it.
AcceptSign(h, signOk) ==
    /\ ~crashed
    /\ UNCHANGED <<finger, hostmeta>>
    /\ hs[h].pc = "sign"
    /\ mutex' = "unlocked"
    /\ IF signOk THEN hs' = [hs EXCEPT ![h].pc = "post"] /\ UNCHANGED last
       ELSE Finish(h, StatusCreated)
    /\ UNCHANGED <<followers, tasks, fanout, crashed>>

AcceptPostRewrites(h, code) ==
    /\ ~crashed
    /\ UNCHANGED <<finger, hostmeta>>
    /\ hs[h].pc = "post"
    /\ code \in InboxResponses(hs[h].follower.inbox)
    /\ IF code = 0 THEN Finish(h, StatusInternalServerError)
       ELSE Finish(h, StatusCreated)
    /\ followers' = apAddFollower(followers, hs[h].req.blog,
                                  hs[h].follower.id, hs[h].follower.inbox)
    /\ UNCHANGED <<mutex, tasks, fanout, crashed>>

\* http.DefaultClient.Do(r); resp.StatusCode is read before err is looked at,
\* so a network failure (resp nil) panics.
AcceptPost(h, code) ==
    /\ ~crashed
    /\ UNCHANGED <<finger, hostmeta>>
    /\ hs[h].pc = "post"
    /\ code \in InboxResponses(hs[h].follower.inbox)
    /\ IF code = 0 THEN Finish(h, StatusInternalServerError)
       ELSE Finish(h, StatusCreated)
    /\ UNCHANGED <<followers, mutex, tasks, fanout, crashed>>

(***************************************************************************)
(* Outbound fan-out.                                                       *)
(***************************************************************************)
Task(b, to) == [blog |-> b, to |-> to, pc |-> "lock"]

\* apSendTo: one goroutine per entry of the followers map; the loop does not
\* wait for any of them.
RECURSIVE apSendTo(_, _, _)
apSendTo(b, m, keys) ==
    IF keys = {} THEN <<>>
    ELSE LET f == CHOOSE k \in keys : TRUE
         IN  <<Task(b, m[f])>> \o apSendTo(b, m, keys \ {f})

\* The loop for rows.Next() of apGetAllFollowers: it ends when the rows are
\* exhausted or when the store fails in the middle; rows.Err() is not
\* called, so the rows scanned so far are returned without an error.
RowsScanned(all) ==
    { [f \in keys |-> all[f]] : keys \in SUBSET DOMAIN all }

\* apSendToAllFollowers(blog, activity). dbOk: whether the store answers the
\* query of apGetAllFollowers and scans its rows.
apSendToAllFollowers(hook, b, dbOk) ==
    IF ~dbOk
    THEN /\ fanout' = [NoFanout EXCEPT !.hook = hook, !.blog = b, !.err = TRUE]
         /\ UNCHANGED tasks
    ELSE \E m \in RowsScanned(apGetAllFollowers(followers, b)) :
           LET started == apSendTo(b, m, DOMAIN m)
           IN  /\ Len(tasks) + Len(started) <= MaxTasks
               /\ tasks' = tasks \o started
               /\ fanout' = [NoFanout EXCEPT
                               !.hook = hook, !.blog = b, !.read = m,
                               !.cut = (m # apGetAllFollowers(followers, b)),
                               !.first = Len(tasks) + 1,
                               !.count = Len(started)]

Skip(hook, b) ==
    /\ fanout' = [NoFanout EXCEPT !.hook = hook, !.blog = b, !.skipped = TRUE]
    /\ UNCHANGED tasks

\* (p *post) apPost()
apPost(p, dbOk) ==
    /\ ~crashed
    /\ UNCHANGED <<finger, hostmeta>>
    /\ IF ~ActivityPubEnabled \/ p.Published = "" \/ p.section = ""
       THEN Skip("apPost", p.Blog)
       ELSE apSendToAllFollowers("apPost", p.Blog, dbOk)
    /\ UNCHANGED <<followers, hs, last, mutex, crashed>>

\* (p *post) apUpdate()
apUpdate(p, dbOk) ==
    /\ ~crashed
    /\ UNCHANGED <<finger, hostmeta>>
    /\ IF ~ActivityPubEnabled \/ p.Published = "" \/ p.section = ""
       THEN Skip("apUpdate", p.Blog)
       ELSE apSendToAllFollowers("apUpdate", p.Blog, dbOk)
    /\ UNCHANGED <<followers, hs, last, mutex, crashed>>

\* (p *post) apDelete()
apDelete(p, dbOk) ==
    /\ ~crashed
    /\ UNCHANGED <<finger, hostmeta>>
    /\ IF ~ActivityPubEnabled
       THEN Skip("apDelete", p.Blog)
       ELSE apSendToAllFollowers("apDelete", p.Blog, dbOk)
    /\ UNCHANGED <<followers, hs, last, mutex, crashed>>

(***************************************************************************)
(* apSendSigned in a goroutine of apSendTo; its error is discarded.        *)
(***************************************************************************)
TaskLock(i) ==
    /\ ~crashed
    /\ UNCHANGED <<finger, hostmeta>>
    /\ tasks[i].pc = "lock"
    /\ mutex = "unlocked"
    /\ mutex' = "locked"
    /\ tasks' = [tasks EXCEPT ![i].pc = "sign"]
    /\ UNCHANGED <<followers, hs, last, fanout, crashed>>

TaskSign(i, signOk) ==
    /\ ~crashed
    /\ UNCHANGED <<finger, hostmeta>>
    /\ tasks[i].pc = "sign"
    /\ mutex' = "unlocked"
    /\ tasks' = [tasks EXCEPT ![i].pc = IF signOk THEN "post" ELSE "signfailed"]
    /\ UNCHANGED <<followers, hs, last, fanout, crashed>>

TaskPostAbortFanOut(i, code) ==
    /\ ~crashed
    /\ UNCHANGED <<finger, hostmeta>>
    /\ tasks[i].pc = "post"
    /\ code \in InboxResponses(tasks[i].to)
    /\ tasks' = IF code = 0 THEN [tasks EXCEPT ![i].pc = "panic"]
                ELSE IF apRequestIsSuccess(code) THEN [tasks EXCEPT ![i].pc = "delivered"]
                ELSE [j \in 1..Len(tasks) |-> [tasks[j] EXCEPT !.pc = "rejected"]]
    /\ crashed' = (code = 0)
    /\ UNCHANGED <<followers, hs, last, mutex, fanout>>

\* A network failure leaves resp nil: reading resp.StatusCode panics, and a
\* panic in a goroutine nobody recovers ends the process.
TaskPost(i, code) ==
    /\ ~crashed
    /\ UNCHANGED <<finger, hostmeta>>
    /\ tasks[i].pc = "post"
    /\ code \in InboxResponses(tasks[i].to)
    /\ tasks' = [tasks EXCEPT ![i].pc = IF code = 0 THEN "panic"
                                        ELSE IF apRequestIsSuccess(code) THEN "delivered"
                                        ELSE "rejected"]
    /\ crashed' = (code = 0)
    /\ UNCHANGED <<followers, hs, last, mutex, fanout>>

(***************************************************************************)
(* The discovery endpoints.                                                *)
(***************************************************************************)
\* appConfig.Server.Domain
Domain == "example.org"

\* The values of the resource query parameter.
ResourceNames == {"b1", "b2", "nob", ""}
Resources ==
    { p \o n \o d :
        p \in {"acct:", "", "xacct:"},
        n \in ResourceNames,
        d \in {"@example.org", "@other.org", "", "@example.org/x",
               "@other.org@example.org"} }

\* re.ReplaceAllString(resource, "$1") for ^acct:(.*)@<domain>$ : the capture
\* when the whole resource matches, the resource itself when it does not.
Captures == ResourceNames \cup { n \o "@other.org" : n \in ResourceNames }
WebfingerMatch(resource) ==
    { n \in Captures : resource = "acct:" \o n \o "@" \o Domain }
WebfingerName(resource) ==
    IF WebfingerMatch(resource) # {}
    THEN CHOOSE n \in WebfingerMatch(resource) : TRUE
    ELSE resource

\* The pattern is built with regexp.QuoteMeta, so it always compiles.
apHandleWebfinger(resource) ==
    /\ ~crashed
    /\ LET name == WebfingerName(resource) IN
       finger' = IF name \notin Blogs
                 THEN [NoFinger EXCEPT !.resource = resource, !.status = StatusNotFound]
                 ELSE [resource |-> resource, status |-> StatusOK,
                       subject |-> "acct:" \o name \o "@" \o Domain,
                       self |-> apIri(name)]
    /\ UNCHANGED <<followers, hs, last, mutex, tasks, fanout, crashed, hostmeta>>

\* The hosts a request may name in its Host header.
Hosts == {"example.org", "other.org"}

handleWellKnownHostMeta(host) ==
    /\ ~crashed
    /\ hostmeta' = [host |-> host, status |-> StatusOK,
                    template |-> "https://" \o host
                                   \o "/.well-known/webfinger?resource={uri}"]
    /\ UNCHANGED <<followers, hs, last, mutex, tasks, fanout, crashed, finger>>

\* One request worker, every shape of submission.
Next ==
    \/ \E h \in Worker, req \in Requests, dbOk \in BOOLEAN : apHandleInbox(h, req, dbOk)
    \/ \E h \in Worker, resp \in ActorResponses : AcceptResolve(h, resp)
    \/ \E h \in Worker, dbOk \in BOOLEAN : AcceptAddFollower(h, dbOk)
    \/ \E h \in Worker : AcceptLock(h)
    \/ \E h \in Worker, signOk \in BOOLEAN : AcceptSign(h, signOk)
    \/ \E h \in Worker, code \in {0, 202, 500} : AcceptPost(h, code)

Spec == Init /\ [][Next]_vars

\* Two request workers running concurrently on the follower table of one blog.
NextConc ==
    \/ \E h \in Handlers, req \in RegistryRequests, dbOk \in BOOLEAN :
            apHandleInbox(h, req, dbOk)
    \/ \E h \in Handlers, resp \in ActorResponses : AcceptResolve(h, resp)
    \/ \E h \in Handlers, dbOk \in BOOLEAN : AcceptAddFollower(h, dbOk)
    \/ \E h \in Handlers : AcceptLock(h)
    \/ \E h \in Handlers, signOk \in BOOLEAN : AcceptSign(h, signOk)
    \/ \E h \in Handlers, code \in {0, 202, 500} : AcceptPost(h, code)

SpecConc == Init /\ [][NextConc]_vars

\* The lifecycle hooks and the deliveries they start, on a persisted table.
InitFanOut ==
    /\ followers \in PersistedTables
    /\ hs = [h \in Handlers |-> Idle]
    /\ last = NoAnswer
    /\ mutex = "unlocked"
    /\ tasks = <<>>
    /\ fanout = NoFanout
    /\ crashed = FALSE
    /\ finger = NoFinger
    /\ hostmeta = NoHostMeta

NextFanOut ==
    \/ \E p \in Posts, dbOk \in BOOLEAN : apPost(p, dbOk)
    \/ \E p \in Posts, dbOk \in BOOLEAN : apUpdate(p, dbOk)
    \/ \E p \in Posts, dbOk \in BOOLEAN : apDelete(p, dbOk)
    \/ \E i \in 1..Len(tasks) : TaskLock(i)
    \/ \E i \in 1..Len(tasks), signOk \in BOOLEAN : TaskSign(i, signOk)
    \/ \E i \in 1..Len(tasks), code \in {0, 202, 500} : TaskPost(i, code)

SpecFanOut == InitFanOut /\ [][NextFanOut]_vars

\* The same under fair scheduling: the Go scheduler runs every goroutine that
\* can run, sync.Mutex hands the lock to a waiter that keeps asking for it,
\* and the POST ends with an answer, a network error or the one minute
\* timeout of its context.
DeliveryStep(i) ==
    /\ i \in 1..Len(tasks)
    /\ \/ TaskLock(i)
       \/ \E signOk \in BOOLEAN : TaskSign(i, signOk)
       \/ \E code \in {0, 202, 500} : TaskPost(i, code)

SpecFanOutFair ==
    /\ InitFanOut /\ [][NextFanOut]_vars
    /\ \A i \in 1..MaxTasks : SF_vars(DeliveryStep(i))

\* Follows, whose Accept is sent by the request worker, next to the
\* deliveries of a publish: every user of the signing mutex.
MixRequests ==
    { Request("b1", "object", Activity(JStr("Follow"), JStr("a1"), JStr(apIri("b1")))) }
MixResponses ==
    { r \in ActorResponses :
        \/ r.code = 0
        \/ r.code = 200 /\ r.body \in { [id |-> "a1", inbox |-> "i1"],
                                        [id |-> "a2", inbox |-> "i1"] } }
MixPosts == { p \in Posts : p.Blog = "b1" /\ p.section = "posts" }

NextMix ==
    \/ \E h \in Worker, req \in MixRequests, dbOk \in BOOLEAN : apHandleInbox(h, req, dbOk)
    \/ \E h \in Worker, resp \in MixResponses : AcceptResolve(h, resp)
    \/ \E h \in Worker, dbOk \in BOOLEAN : AcceptAddFollower(h, dbOk)
    \/ \E h \in Worker : AcceptLock(h)
    \/ \E h \in Worker, signOk \in BOOLEAN : AcceptSign(h, signOk)
    \/ \E h \in Worker, code \in {0, 202, 500} : AcceptPost(h, code)
    \/ \E p \in MixPosts, dbOk \in BOOLEAN : apPost(p, dbOk)
    \/ \E i \in 1..Len(tasks) : TaskLock(i)
    \/ \E i \in 1..Len(tasks), signOk \in BOOLEAN : TaskSign(i, signOk)
    \/ \E i \in 1..Len(tasks), code \in {0, 202, 500} : TaskPost(i, code)

SpecMix == Init /\ [][NextMix]_vars

\* The two discovery endpoints.
NextDiscovery ==
    \/ \E resource \in Resources : apHandleWebfinger(resource)
    \/ \E host \in Hosts : handleWellKnownHostMeta(host)

SpecDiscovery == Init /\ [][NextDiscovery]_vars

(***************************************************************************)
(* Properties.                                                             *)
(***************************************************************************)
KnownObject(req) == req.blog \in Blogs /\ req.body = "object"
IsFollow(req) == KnownObject(req) /\ req.activity.type = JStr("Follow")
Returns(h) == hs[h].pc # "idle" /\ hs'[h].pc = "idle"
\* A step of apHandleInbox leaves its request in last' (answered at once) or
\* in hs'[h] (still being handled): the formulas below read it from there.

\* C1: a Follow with actor # object whose actor resolves leaves, when its
\* handler finishes, exactly one row for (site, actor) holding the resolved
\* inbox, and one Accept sent to that inbox. Stated for the run in which the
\* store write, the signing and the POST all succeed.
C1_FollowRecordsActorRow ==
    [][\A h \in Handlers :
          (hs[h].pc = "post" /\ ~hs[h].addErr /\ Returns(h)
             /\ last'.status = StatusCreated)
          => RowsOf(followers', hs[h].req.blog, hs[h].req.activity.actor.s)
               = {Row(hs[h].req.blog, hs[h].req.activity.actor.s,
                      hs[h].follower.inbox)}]_vars

\* C2: a Follow whose actor equals its object leaves the follower table as
\* it was, starts no resolution of the remote actor and sends no Accept: the
\* handler answers at once.
SelfFollow(req) ==
    /\ IsFollow(req)
    /\ req.activity.actor.k = "str"
    /\ req.activity.object.k = "str"
    /\ req.activity.actor.s = req.activity.object.s
C2_SelfFollowIgnored ==
    [][\A h \in Handlers : \A req \in {last'.req, hs'[h].req}, dbOk \in BOOLEAN :
          (SelfFollow(req) /\ apHandleInbox(h, req, dbOk))
          => /\ followers' = followers
             /\ hs' = hs /\ hs[h].pc = "idle"
             /\ tasks' = tasks /\ mutex' = mutex
             /\ last'.status = StatusCreated]_vars
C2_Witness == SelfFollow(last.req) /\ last.status = StatusCreated

\* C3: the inbox answers 404 for an unknown site, 400 for a body that is not
\* valid JSON and 201 for every JSON object sent to a known site, whatever
\* its type and fields and whatever the resolution, store and delivery do.
C3_InboxStatus ==
    last.req # NoRequest =>
        IF last.req.blog \notin Blogs THEN last.status = StatusNotFound
        ELSE IF last.req.body = "malformed" THEN last.status = StatusBadRequest
        ELSE IF last.req.body = "object" THEN last.status = StatusCreated
        ELSE TRUE   \* valid JSON that is no object: left open here

\* C4: when the resolution of the remote actor fails (no response, a non-2xx
\* response, an unparsable document), the resolver reports an error, the
\* follower table is unchanged, no Accept is sent and the handler completes
\* normally.
ResolutionFails(resp) ==
    resp.code = 0 \/ resp.code \notin 200..299 \/ resp.body = Garbage
C4_FailedResolutionDropsFollow ==
    [][\A h \in Handlers, resp \in ActorResponses :
          (ResolutionFails(resp) /\ AcceptResolve(h, resp))
          => /\ apGetRemoteActor(resp).err
             /\ followers' = followers
             /\ hs'[h].pc = "idle"
             /\ last'.status = StatusCreated]_vars

\* C5: an Accept is delivered for a Follow only if the upsert of its follower
\* row succeeded before.
C5_UpsertBeforeAccept ==
    [][\A h \in Handlers, code \in {202, 500} :
          AcceptPost(h, code) => ~hs[h].addErr]_vars

\* C6 (as claimed): an Undo whose object is a Follow with the Undo's own
\* actor leaves no row for (site, actor); with no such row before, the table
\* is unchanged; the sender sees no error.
UndoFollow(req) ==
    /\ KnownObject(req)
    /\ req.activity.type = JStr("Undo")
    /\ req.activity.object.k = "map"
    /\ req.activity.object.type = JStr("Follow")
    /\ req.activity.object.actor.k = "str"
    /\ req.activity.actor.k = "str"
    /\ req.activity.object.actor.s = req.activity.actor.s
Without(t, b, f) == { r \in t : ~(r.blog = b /\ r.follower = f) }
C6_UndoRemovesFollower ==
    [][\A h \in Handlers : \A req \in {last'.req, hs'[h].req}, dbOk \in BOOLEAN :
          (UndoFollow(req) /\ apHandleInbox(h, req, dbOk))
          => /\ RowsOf(followers', req.blog, req.activity.actor.s) = {}
             /\ last'.status = StatusCreated]_vars

\* C6 (amended): such an Undo answers 201 and, when the store executes the
\* delete, removes the row of (site, actor) and no other row; when the store
\* fails, or when there was no such row, the table is unchanged.
C6_UndoRemovesFollowerWhenStored ==
    [][\A h \in Handlers : \A req \in {last'.req, hs'[h].req}, dbOk \in BOOLEAN :
          (UndoFollow(req) /\ apHandleInbox(h, req, dbOk))
          => /\ dbOk => followers' = Without(followers, req.blog, req.activity.actor.s)
             /\ ~dbOk => followers' = followers
             /\ RowsOf(followers, req.blog, req.activity.actor.s) = {}
                  => followers' = followers
             /\ hs' = hs
             /\ last'.status = StatusCreated]_vars
C6_Witness ==
    /\ UndoFollow(last.req)
    /\ last.status = StatusCreated
    /\ RowsOf(followers, last.req.blog, last.req.activity.actor.s) = {}
    /\ \E r \in followers :
          r.follower = last.req.activity.actor.s /\ r.blog # last.req.blog

\* C7 (as claimed): a Block whose object is a non-empty string equal to its
\* actor leaves no row for (site, actor); a Block whose object differs from
\* its actor leaves the table unchanged.
IsBlock(req) == KnownObject(req) /\ req.activity.type = JStr("Block")
BlockSelf(req) ==
    /\ IsBlock(req)
    /\ req.activity.object.k = "str"
    /\ req.activity.object.s # ""
    /\ req.activity.actor.k = "str"
    /\ req.activity.actor.s = req.activity.object.s
BlockOther(req) == IsBlock(req) /\ req.activity.object # req.activity.actor
C7_BlockRemovesFollower ==
    [][\A h \in Handlers : \A req \in {last'.req, hs'[h].req}, dbOk \in BOOLEAN :
          /\ (BlockSelf(req) /\ apHandleInbox(h, req, dbOk))
               => RowsOf(followers', req.blog, req.activity.actor.s) = {}
          /\ (BlockOther(req) /\ apHandleInbox(h, req, dbOk))
               => followers' = followers]_vars

\* C7 (amended): such a Block removes the row of (site, actor) and no other
\* row when the store executes the delete, and leaves the table unchanged
\* when the store fails; a Block whose object differs from its actor leaves
\* the table unchanged.
C7_BlockRemovesFollowerWhenStored ==
    [][\A h \in Handlers : \A req \in {last'.req, hs'[h].req}, dbOk \in BOOLEAN :
          /\ (BlockSelf(req) /\ apHandleInbox(h, req, dbOk))
               => /\ dbOk => followers' = Without(followers, req.blog, req.activity.actor.s)
                  /\ ~dbOk => followers' = followers
                  /\ last'.status = StatusCreated
          /\ (BlockOther(req) /\ apHandleInbox(h, req, dbOk))
               => followers' = followers /\ last'.status = StatusCreated]_vars
C7_Witness ==
    /\ BlockSelf(last.req)
    /\ last.status = StatusCreated
    /\ RowsOf(followers, last.req.blog, last.req.activity.actor.s) = {}
    /\ followers # {}

\* C8 (as claimed): the same Follow submitted twice yields one row: the
\* table after the second dispatch equals the table after the first, and no
\* state holds two rows with the same (site, actor IRI). Here the second
\* dispatch writes while the first, which wrote already, is still in flight,
\* and both resolved a document that carries the actor's own IRI as id and a
\* non-empty inbox.
UniquePerKey ==
    \A r1, r2 \in followers :
        (r1.blog = r2.blog /\ r1.follower = r2.follower) => r1 = r2
Upserted(h) == hs[h].pc \in {"lock", "sign", "post"} /\ ~hs[h].addErr
OwnDocument(h) ==
    hs[h].follower.id = hs[h].req.activity.actor.s /\ hs[h].follower.inbox # ""
C9_RowsNonEmpty ==
    \A r \in followers : r.follower # "" /\ r.inbox # ""

\* C10: a fan-out for a site starts exactly one delivery task per follower
\* row read from the table for that site (every row of the site unless the
\* store failed in the middle of the read) and none for the rows of other
\* sites; the tasks are detached: when the call returns each of them has
\* only been started, and no earlier task has been waited for or touched.
Injective(f) == \A x, y \in DOMAIN f : f[x] = f[y] => x = y
C10_FanOutOneTaskPerRow ==
    [][(fanout' # fanout \/ Len(tasks') # Len(tasks))
          => LET rows == { r \in followers : r.blog = fanout'.blog }
                 new == (Len(tasks) + 1)..Len(tasks')
             IN  /\ fanout'.hook # "none"
                 /\ Len(tasks') >= Len(tasks)
                 /\ SubSeq(tasks', 1, Len(tasks)) = tasks
                 /\ mutex' = mutex /\ crashed' = crashed
                 /\ \A i \in new : tasks'[i].pc = "lock"
                 /\ IF fanout'.skipped \/ fanout'.err THEN new = {}
                    ELSE \E f \in [new -> rows] :
                            /\ Injective(f)
                            /\ Cardinality(new) = Cardinality(DOMAIN fanout'.read)
                            /\ ~fanout'.cut => Cardinality(new) = Cardinality(rows)
                            /\ \A i \in new : tasks'[i].to = f[i].inbox]_vars
C10_Witness ==
    /\ fanout.count = 2 /\ ~fanout.cut
    /\ Len(tasks) = 2
    /\ \A i \in 1..Len(tasks) : tasks[i].pc = "lock"
    /\ \E r \in followers : r.blog # fanout.blog

\* C11: in a fan-out, a delivery whose inbox answers 500 ends as rejected
\* for that delivery only: no other delivery, the mutex, the process and the
\* caller's result are touched, and every other delivery that has not ended
\* can still take its next step, whatever the interleaving.
CanProceed(j) ==
    IF tasks[j].pc = "lock" THEN mutex = "locked" \/ ENABLED TaskLock(j)
    ELSE IF tasks[j].pc = "sign" THEN ENABLED TaskSign(j, TRUE)
    ELSE IF tasks[j].pc = "post" THEN tasks[j].to = "" \/ ENABLED TaskPost(j, 202)
    ELSE TRUE
C11_RejectedDeliveryIsolated ==
    /\ [][\A i \in 1..Len(tasks) :
             (tasks[i].pc = "post" /\ tasks[i].to # "" /\ TaskPost(i, 500))
             => /\ tasks'[i] = [tasks[i] EXCEPT !.pc = "rejected"]
                /\ \A j \in 1..Len(tasks) : j # i => tasks'[j] = tasks[j]
                /\ Len(tasks') = Len(tasks)
                /\ crashed' = crashed /\ mutex' = mutex
                /\ fanout' = fanout
                /\ followers' = followers]_vars
    /\ [](\A i \in 1..Len(tasks), j \in 1..Len(tasks) :
             (tasks[i].pc = "rejected" /\ ~crashed) => CanProceed(j))
C11_Witness ==
    /\ ~crashed
    /\ fanout.count = 2 /\ ~fanout.err
    /\ \E i \in 1..Len(tasks), j \in 1..Len(tasks) :
          /\ i >= fanout.first /\ j >= fanout.first
          /\ tasks[i].pc = "rejected" /\ tasks[j].pc = "delivered"

\* C12: a delivery whose POST fails with a network error (no response) ends
\* with an error for that delivery alone: the process keeps running and no
\* other delivery is touched.
C12_NetworkFailureContained ==
    [][\A i \in 1..Len(tasks) :
          (tasks[i].pc = "post" /\ TaskPost(i, 0))
          => /\ ~crashed'
             /\ \A j \in 1..Len(tasks) : j # i => tasks'[j] = tasks[j]]_vars

\* C13: for each of the three lifecycle hooks, a content item with an empty
\* publish timestamp or with no section starts no delivery.
Draft(p) == p.Published = "" \/ p.section = ""
C13_DraftsNeverFederated ==
    [][\A p \in Posts, dbOk \in BOOLEAN :
          (Draft(p) /\ (apPost(p, dbOk) \/ apUpdate(p, dbOk) \/ apDelete(p, dbOk)))
          => tasks' = tasks]_vars

\* C14: the answer to an inbox submission never waits on an outbound POST to
\* a remote inbox: no request worker writes its 201 in the step in which the
\* remote inbox answers the POST of an Accept.
C14_HandlerNeverWaitsOnPost ==
    [][\A h \in Handlers :
          (Returns(h) /\ last'.status = StatusCreated) => hs[h].pc # "post"]_vars

\* C15: across the Accept sends of the request workers and the deliveries of
\* the fan-outs, at most one is inside the sign operation at any time, the
\* mutex is held exactly while one is, and a delivery has released the mutex
\* when it starts its POST and does not take it again.
Signing ==
    Cardinality({ h \in Handlers : hs[h].pc = "sign" })
        + Cardinality({ i \in 1..Len(tasks) : tasks[i].pc = "sign" })
C15_SigningSerialized ==
    /\ [](Signing <= 1 /\ (mutex = "locked" <=> Signing = 1))
    /\ [][/\ \A h \in Handlers :
                /\ (hs[h].pc # "post" /\ hs'[h].pc = "post") => mutex' = "unlocked"
                /\ (hs[h].pc = "post" /\ hs'[h] # hs[h]) => mutex' = mutex
          /\ \A i \in 1..Len(tasks) :
                /\ (tasks[i].pc # "post" /\ tasks'[i].pc = "post") => mutex' = "unlocked"
                /\ (tasks[i].pc = "post" /\ tasks'[i] # tasks[i]) => mutex' = mutex]_vars
C15_Witness ==
    /\ mutex = "locked"
    /\ \E h \in Handlers, i \in 1..Len(tasks), j \in 1..Len(tasks) :
          hs[h].pc = "sign" /\ tasks[i].pc = "post" /\ tasks[j].pc = "lock"

\* C16: a Create whose object is no reply to the site but has a string
\* content and a non-empty string id records one citation (id, link) for
\* every outbound link of the content that contains the site's identity
\* IRI, and none for the other links.
IsCreate(req) == KnownObject(req) /\ req.activity.type = JStr("Create")
ReplyCase(req) ==
    /\ IsCreate(req)
    /\ req.activity.object.k = "map"
    /\ req.activity.object.inReplyTo.k = "str"
    /\ req.activity.object.inReplyTo.s # ""
    /\ req.activity.object.id.k = "str"
    /\ req.activity.object.id.s # ""
    /\ Contains(req.activity.object.inReplyTo.s, apIri(req.blog))
ContentCase(req) ==
    /\ IsCreate(req)
    /\ ~ReplyCase(req)
    /\ req.activity.object.k = "map"
    /\ req.activity.object.content.k = "str"
    /\ req.activity.object.id.k = "str"
    /\ req.activity.object.id.s # ""
C16_CreateRecordsLinks ==
    ContentCase(last.req)
    => last.mentions =
         { Mention(last.req.activity.object.id.s, l) :
             l \in { k \in ExternalLinks(last.req.activity.object.content.s) :
                       Contains(k, apIri(last.req.blog)) } }

\* C17: a Create whose object has a non-empty string inReplyTo containing the
\* site's identity IRI and a non-empty string id records exactly one
\* citation (id, inReplyTo), runs no link extraction on the content and
\* leaves the follower table unchanged.
C17_ReplyRecordsOneCitation ==
    [][\A h \in Handlers : \A req \in {last'.req, hs'[h].req}, dbOk \in BOOLEAN :
          (ReplyCase(req) /\ apHandleInbox(h, req, dbOk))
          => /\ last'.mentions = { Mention(req.activity.object.id.s,
                                           req.activity.object.inReplyTo.s) }
             /\ last'.notes = <<>>
             /\ last'.status = StatusCreated
             /\ followers' = followers
             /\ hs' = hs]_vars
C17_Witness ==
    /\ ReplyCase(last.req)
    /\ last.req.activity.object.content = JStr("html1")
    /\ Cardinality(last.mentions) = 1
    /\ followers # {}

\* C18: a Like (an Announce) emits exactly one notification "<actor> liked
\* <object>" ("<actor> announced <object>") if and only if actor and object
\* are non-empty strings and the object contains the site's identity IRI; in
\* every case the follower table is unchanged and nothing is sent outbound.
IsLike(req) ==
    KnownObject(req) /\ req.activity.type \in {JStr("Like"), JStr("Announce")}
LikeOfSite(req) ==
    /\ req.activity.actor.k = "str" /\ req.activity.actor.s # ""
    /\ req.activity.object.k = "str" /\ req.activity.object.s # ""
    /\ Contains(req.activity.object.s, apIri(req.blog))
LikeText(req) ==
    IF req.activity.type = JStr("Like")
    THEN req.activity.actor.s \o " liked " \o req.activity.object.s
    ELSE req.activity.actor.s \o " announced " \o req.activity.object.s
C18_LikeNotifies ==
    [][\A h \in Handlers : \A req \in {last'.req, hs'[h].req}, dbOk \in BOOLEAN :
          (IsLike(req) /\ apHandleInbox(h, req, dbOk))
          => /\ last'.notes = IF LikeOfSite(req) THEN <<LikeText(req)>> ELSE <<>>
             /\ last'.mentions = {}
             /\ last'.status = StatusCreated
             /\ followers' = followers
             /\ hs' = hs /\ tasks' = tasks /\ mutex' = mutex]_vars
C18_Witness ==
    /\ IsLike(last.req)
    /\ last.req.activity.type = JStr("Announce")
    /\ last.notes = <<"a1 announced https://site/b1/p1">>
    /\ followers # {}

\* C19 (as claimed): the account lookup answers 200 with the site's identity
\* IRI as "self" exactly when the resource is acct:<name>@<domain> with
\* <name> a configured site, and 404 for every other resource.
AcctResource(resource) ==
    \E n \in Blogs : resource = "acct:" \o n \o "@" \o Domain
C19_WebfingerOnlyAcct ==
    finger # NoFinger =>
        IF AcctResource(finger.resource)
        THEN /\ finger.status = StatusOK
             /\ finger.resource = "acct:" \o "b1" \o "@" \o Domain => finger.self = apIri("b1")
             /\ finger.resource = "acct:" \o "b2" \o "@" \o Domain => finger.self = apIri("b2")
        ELSE finger.status = StatusNotFound

\* C20: a follower row is created or replaced only by the upsert of a Follow:
\* every step that puts a row into the table that was not there is the
\* upsert of a worker handling a Follow, and no Block, Delete, Undo, Create,
\* Like, Announce or activity of another type adds a row or changes one.
C20_OnlyFollowAddsRows ==
    [][/\ (followers' \ followers # {})
            => \E h \in Handlers :
                  /\ hs[h].pc = "add" /\ hs'[h].pc = "lock"
                  /\ IsFollow(hs[h].req)
                  /\ followers' \ followers
                       = {Row(hs[h].req.blog, hs[h].follower.id, hs[h].follower.inbox)}
       /\ \A h \in Handlers : \A req \in {last'.req, hs'[h].req}, dbOk \in BOOLEAN :
             (KnownObject(req) /\ req.activity.type # JStr("Follow")
                /\ apHandleInbox(h, req, dbOk))
             => followers' \subseteq followers]_vars
C20_Witness ==
    /\ KnownObject(last.req)
    /\ last.req.activity.type = JStr("Delete")
    /\ last.status = StatusCreated
    /\ Cardinality(followers) >= 2

FollowedBy(req) ==
    /\ IsFollow(last.req)
    /\ last.status = StatusCreated
    /\ last.added # NoRow
    /\ last.added.follower # "" /\ last.added.inbox # ""
    /\ last.req.blog = req.blog
    /\ last.req.activity.actor = req.activity.actor
C24_UndoRemovesFollowedRow ==
    [][\A h \in Handlers : \A req \in {last'.req} :
          (FollowedBy(req) /\ (UndoFollow(req) \/ BlockSelf(req))
             /\ apHandleInbox(h, req, TRUE))
          => last.added \notin followers']_vars

\* C22: a Delete, an activity whose type is none of the seven handled ones,
\* an activity with no type, and an Undo whose object is no Follow or whose
\* inner actor differs from the outer actor change nothing: the follower
\* table is unchanged, no citation is recorded, no notification is emitted
\* and nothing is sent outbound.
HandledTypes ==
    { JStr(t) : t \in {"Follow", "Undo", "Create", "Delete", "Block", "Like", "Announce"} }
IsUndo(req) == KnownObject(req) /\ req.activity.type = JStr("Undo")
NoOpCase(req) ==
    /\ KnownObject(req)
    /\ \/ req.activity.type = JStr("Delete")
       \/ req.activity.type \notin HandledTypes
       \/ IsUndo(req) /\ ~UndoFollow(req)
C22_NoOps ==
    [][\A h \in Handlers : \A req \in {last'.req, hs'[h].req}, dbOk \in BOOLEAN :
          (NoOpCase(req) /\ apHandleInbox(h, req, dbOk))
          => /\ followers' = followers
             /\ last'.mentions = {} /\ last'.notes = <<>> /\ last'.added = NoRow
             /\ last'.status = StatusCreated
             /\ hs' = hs /\ tasks' = tasks /\ mutex' = mutex]_vars
C22_Witness ==
    /\ IsUndo(last.req) /\ ~UndoFollow(last.req)
    /\ last.req.activity.object.k = "map"
    /\ last.req.activity.object.type = JStr("Follow")
    /\ last.req.activity.object.actor.k = "str"
    /\ last.status = StatusCreated
    /\ RowsOf(followers, last.req.blog, last.req.activity.object.actor.s) # {}

\* C23: when reading the follower list fails with a store error during a
\* fan-out, no delivery task is started for any follower, and the hook that
\* triggered the fan-out returns normally.
C23_ReadFailureStartsNothing ==
    [][(fanout'.err \/ fanout'.cut)
          => Len(tasks') = Len(tasks) /\ crashed' = crashed]_vars

\* C25: handlers running concurrently on the same (site, actor) write the
\* follower table at most once each, in one step: every step that changes
\* the table is the single write of one handler, leaves the other handlers
\* as they are and yields the table that handler would produce running alone
\* from the table it finds; the handler's other steps leave the table as it
\* is. The final table is therefore the one of the handlers run one after
\* the other in the order of their writes.
C25_OneAtomicWritePerHandler ==
    /\ [][followers' # followers
            => \E h \in Handlers :
                  /\ \A g \in Handlers : g # h => hs'[g] = hs[g]
                  /\ \/ /\ hs[h].pc = "add" /\ hs'[h].pc = "lock"
                        /\ followers' =
                             Without(followers, hs[h].req.blog, hs[h].follower.id)
                               \cup {Row(hs[h].req.blog, hs[h].follower.id,
                                         hs[h].follower.inbox)}
                     \/ /\ hs[h].pc = "idle" /\ hs'[h].pc = "idle"
                        /\ UndoFollow(last'.req) \/ BlockSelf(last'.req)
                        /\ followers' =
                             Without(followers, last'.req.blog,
                                     last'.req.activity.actor.s)]_vars
    /\ [][\A h \in Handlers :
             (hs[h].pc \in {"resolve", "lock", "sign", "post"} /\ hs'[h] # hs[h])
             => followers' = followers]_vars
C25_Witness ==
    \E h \in Handlers :
        /\ Upserted(h)
        /\ hs[h].follower.id = hs[h].req.activity.actor.s
        /\ UndoFollow(last.req)
        /\ last.req.blog = hs[h].req.blog
        /\ last.req.activity.actor = hs[h].req.activity.actor
        /\ RowsOf(followers, hs[h].req.blog, hs[h].follower.id) = {}

\* C26: under fair scheduling every started delivery ends (delivered,
\* rejected, failed to sign, failed on the network), and the signing mutex
\* is free whenever no delivery is in the sign step.
Ended == {"delivered", "rejected", "signfailed", "panic"}
C26_DeliveriesTerminate ==
    /\ \A i \in 1..MaxTasks :
          (i <= Len(tasks)) ~> (i <= Len(tasks) /\ tasks[i].pc \in Ended)
    /\ []((\A i \in 1..Len(tasks) : tasks[i].pc # "sign") => mutex = "unlocked")

====
